---- MODULE Spec2Model ----
(***************************************************************************)
(* x402 Trust Protocol skill actions (src/skills/x402-trust/actions).      *)
(*                                                                         *)
(* One process runs one action invocation at a time.  An invocation is a   *)
(* run(params) entry point, the local prologue of the action, and then a   *)
(* strictly sequential series of remote calls; every remote call either    *)
(* returns a value chosen by the remote side or raises.  The variable      *)
(* calls records every remote call the invocation has issued, in order.    *)
(*                                                                         *)
(* The environment is the signing key (present or absent, fixed for the    *)
(* process) and the behaviour of the remote side.  The contract addresses  *)
(* and the chain id are taken to be the well-formed defaults of            *)
(* get_config.                                                             *)
(***************************************************************************)
EXTENDS Integers, Sequences, FiniteSets, TLC

VARIABLES pc, act, params, keyPresent, loc, calls, outcome, result

vars == <<pc, act, params, keyPresent, loc, calls, outcome, result>>

(***************************************************************************)
(* Bounds of the model.                                                    *)
(***************************************************************************)
\* longest provider list that is enumerated element by element
MaxShort == 3

(***************************************************************************)
(* Program constants.                                                      *)
(***************************************************************************)
USDC_UNIT == 1000000
MIN_PAYMENT == 1
MIN_PROVIDERS == 2
MAX_PROVIDERS == 10
DEFAULT_TIMEOUT == 900
SECONDS_PER_MINUTE == 60
PENDING == 1
ELITE_SCORE == 850
EXCELLENT_SCORE == 700
GOOD_SCORE == 500
FAIR_SCORE == 400
FAST_TRACK_UNITS == 100
COMPLEX_UNITS == 1000

None == "<None>"

(***************************************************************************)
(* Addresses.  An address string is valid when it is 40 hex digits that    *)
(* are all lower case or carry the right checksum casing; checksumming     *)
(* maps every valid spelling to the checksum spelling, lower() to the      *)
(* lower-case spelling.                                                    *)
(***************************************************************************)
ChecksumTable ==
    ("0xAb1" :> "0xAb1") @@ ("0xab1" :> "0xAb1") @@
    ("0xCd2" :> "0xCd2") @@ ("0xcd2" :> "0xCd2") @@
    ("0xEe9" :> "0xEe9") @@ ("0xee9" :> "0xEe9")

LowerTable ==
    ("0xAb1" :> "0xab1") @@ ("0xab1" :> "0xab1") @@
    ("0xCd2" :> "0xcd2") @@ ("0xcd2" :> "0xcd2") @@
    ("0xEe9" :> "0xee9") @@ ("0xee9" :> "0xee9")

is_address(s) == s \in DOMAIN ChecksumTable

to_checksum_address(s) == ChecksumTable[s]

lower(s) == IF s \in DOMAIN LowerTable THEN LowerTable[s] ELSE s

\* str.strip() on one comma-separated segment
StripTable ==
    (" 0xAb1" :> "0xAb1") @@ ("0xcd2 " :> "0xcd2") @@ (" bad " :> "bad") @@ (" " :> "")

strip(s) == IF s \in DOMAIN StripTable THEN StripTable[s] ELSE s

\* bytes.fromhex(payment_id.replace("0x", ""))
HexTable == ("0xa1" :> "a1") @@ ("a1" :> "a1")

is_hex(s) == s \in DOMAIN HexTable

fromhex(s) == HexTable[s]

\* the address of the account built from EVM_PRIVATE_KEY
ACCOUNT_ADDRESS == "0xEe9"

(***************************************************************************)
(* get_recommendation (utils.py).                                          *)
(***************************************************************************)
ELITE_TEXT == "Highly recommended - Elite provider with excellent track record"
EXCELLENT_TEXT == "Recommended - Excellent provider, low risk"
GOOD_TEXT == "Acceptable - Good provider, use with escrow protection"
FAIR_TEXT == "Caution - Fair provider, escrow strongly recommended"
POOR_TEXT == "Not recommended - Poor track record, high risk"

\* > for >= at the first breakpoint
get_recommendation_exclusive(score) ==
    IF score > ELITE_SCORE THEN ELITE_TEXT
    ELSE IF score >= EXCELLENT_SCORE THEN EXCELLENT_TEXT
    ELSE IF score >= GOOD_SCORE THEN GOOD_TEXT
    ELSE IF score >= FAIR_SCORE THEN FAIR_TEXT
    ELSE POOR_TEXT

get_recommendation(score) ==
    IF score >= ELITE_SCORE THEN ELITE_TEXT
    ELSE IF score >= EXCELLENT_SCORE THEN EXCELLENT_TEXT
    ELSE IF score >= GOOD_SCORE THEN GOOD_TEXT
    ELSE IF score >= FAIR_SCORE THEN FAIR_TEXT
    ELSE POOR_TEXT

(***************************************************************************)
(* Values the remote side and the caller can supply.                       *)
(***************************************************************************)
ScoreVals == {0, FAIR_SCORE - 1, FAIR_SCORE, GOOD_SCORE - 1, GOOD_SCORE,
              EXCELLENT_SCORE - 1, EXCELLENT_SCORE, ELITE_SCORE - 1, ELITE_SCORE,
              ELITE_SCORE + 150}

TimeoutVals == {930}

AddrInputs == {"0xAb1", "0xcd2", "0xaB1", "bad", ""}

\* keys a parameter map may hold
Pick(keys, vals) == [k \in keys |-> vals[k]]

Has(p, k) == k \in DOMAIN p

\* not provider_addresses
empty_addresses(v) ==
    IF v.kind = "str" THEN v.items = <<"">> ELSE v.items = <<>>

\* not amount_usdc
empty_amount(a) == a.kind = "num" /\ a.micro = 0 /\ ~a.frac

\* not value, for the value of parameter k
falsy(k, v) ==
    IF k = "amount_usdc" THEN empty_amount(v)
    ELSE IF k = "provider_addresses" THEN empty_addresses(v)
    ELSE v = ""

\* value is None, which lets an empty value through
is_missing_none_only(p, k) == ~Has(p, k)

\* value = params.get(k); not value
is_missing(p, k) == ~Has(p, k) \/ falsy(k, p[k])

(***************************************************************************)
(* Locals of the running invocation.                                       *)
(***************************************************************************)
LocInit ==
    [ provider |-> None, score |-> 0, timeout |-> 0, tier |-> None,
      addrs |-> <<>>, view |-> <<>>, i |-> 0, comparison |-> <<>>,
      best_provider |-> None, best_score |-> 0,
      amount_usdc |-> [micro |-> 0, frac |-> FALSE], amount_wei |-> 0,
      text |-> "", allowance |-> 0, tx |-> None,
      payment_id |-> None, payment |-> <<>>, receipt |-> <<>> ]

Init ==
    /\ pc = "idle"
    /\ act = None
    /\ params = <<>>
    /\ keyPresent \in BOOLEAN
    /\ loc = LocInit
    /\ calls = <<>>
    /\ outcome = "none"
    /\ result = <<>>

\* one remote call, as recorded in calls
Call(op, tx, arg, ok) == [op |-> op, tx |-> tx, arg |-> arg, ok |-> ok]

\* str(e) of the exception a failing remote call raises
RpcError(op) == "RPC error: " \o op

\* the action returns r
Returns(r) ==
    /\ pc' = "done"
    /\ outcome' = "returned"
    /\ result' = r

\* an exception leaves the action
Raises(e) ==
    /\ pc' = "done"
    /\ outcome' = "raised"
    /\ result' = [exception |-> e]

\* the action goes on to its next remote call
Goto(label) ==
    /\ pc' = label
    /\ UNCHANGED <<outcome, result>>

(***************************************************************************)
(* check_provider                                                          *)
(***************************************************************************)
\* the message without the offending input
invalid_address_error_no_input(a) == [error |-> "Invalid address"]

invalid_address_error(a) == [error |-> "Invalid address: " \o a]

\* run(params) and the part of check_provider that precedes its first
\* remote call
check_provider_run ==
    /\ pc = "idle"
    /\ \E keys \in SUBSET {"provider_address"}, a \in AddrInputs :
         LET p == Pick(keys, [provider_address |-> a]) IN
         /\ act' = "check_provider"
         /\ params' = p
         /\ UNCHANGED <<keyPresent, calls>>
         /\ IF is_missing(p, "provider_address")
            THEN Returns([error |-> "provider_address is required"])
                 /\ UNCHANGED loc
            ELSE IF ~is_address(p.provider_address)
            THEN Returns(invalid_address_error(p.provider_address))
                 /\ UNCHANGED loc
            ELSE /\ loc' = [loc EXCEPT !.provider = to_checksum_address(p.provider_address)]
                 /\ Goto("cp_getProviderInfo")

check_provider_getProviderInfo ==
    /\ pc = "cp_getProviderInfo"
    /\ UNCHANGED <<act, params, keyPresent>>
    /\ \E ok \in BOOLEAN, score \in ScoreVals, timeout \in TimeoutVals, is_active \in BOOLEAN :
         /\ calls' = Append(calls, Call("getProviderInfo", None, 0, ok))
         /\ IF ~ok
            THEN Returns([error |-> RpcError("getProviderInfo")]) /\ UNCHANGED loc
            ELSE IF ~is_active
            THEN Returns([error |-> "Provider not registered or inactive", is_active |-> FALSE])
                 /\ UNCHANGED loc
            ELSE /\ loc' = [loc EXCEPT !.score = score, !.timeout = timeout]
                 /\ Goto("cp_getTrustTier")

check_provider_getTrustTier ==
    /\ pc = "cp_getTrustTier"
    /\ UNCHANGED <<act, params, keyPresent>>
    /\ \E ok \in BOOLEAN, tier \in {"Good"} :
         /\ calls' = Append(calls, Call("getTrustTier", None, 0, ok))
         /\ IF ~ok
            THEN Returns([error |-> RpcError("getTrustTier")]) /\ UNCHANGED loc
            ELSE /\ loc' = [loc EXCEPT !.tier = tier]
                 /\ Goto("cp_needsEscrow")

check_provider_needsEscrow ==
    /\ pc = "cp_needsEscrow"
    /\ UNCHANGED <<act, params, keyPresent, loc>>
    /\ \E ok \in BOOLEAN, needs_escrow \in BOOLEAN :
         /\ calls' = Append(calls, Call("needsEscrow", None, 0, ok))
         /\ IF ~ok
            THEN Returns([error |-> RpcError("needsEscrow")])
            ELSE Returns([ provider |-> loc.provider,
                           score |-> loc.score,
                           tier |-> loc.tier,
                           escrow_required |-> needs_escrow,
                           recommended_timeout |-> loc.timeout \div SECONDS_PER_MINUTE,
                           recommendation |-> get_recommendation(loc.score),
                           is_active |-> TRUE ])

(***************************************************************************)
(* compare_providers                                                       *)
(***************************************************************************)
CmpAddrs == {"0xAb1", "0xcd2", "bad"}

CmpSegs == {" 0xAb1", "0xcd2 ", " bad "}

CmpScoreVals == {0, GOOD_SCORE - 1, EXCELLENT_SCORE, ELITE_SCORE}

\* the providers the remote side knows, by checksum spelling
Providers == {"0xAb1", "0xCd2"}

\* what the remote side holds for every provider when compareProviders is called
ChainViews ==
    [Providers -> [score : CmpScoreVals, timeout : TimeoutVals, needs_escrow : BOOLEAN]]

SeqsUpTo(S, n) == UNION {[1..m -> S] : m \in 0..n}

Alternating(n) == [i \in 1..n |-> IF i % 2 = 1 THEN "0xAb1" ELSE "0xcd2"]

\* provider_addresses as a list, or as a comma-separated string given by its
\* comma-delimited segments (the empty string has the one segment "")
ListInputs ==
    {[kind |-> "list", items |-> l] :
        l \in SeqsUpTo(CmpAddrs, MaxShort)
              \cup {Alternating(MAX_PROVIDERS), Alternating(MAX_PROVIDERS + 1)}}
    \cup
    {[kind |-> "str", items |-> l] :
        l \in (SeqsUpTo(CmpSegs, MaxShort) \ {<<>>})
              \cup {<<"">>, <<"0xAb1">>, <<" ", " ">>, Alternating(MAX_PROVIDERS + 1)}}

\* [addr.strip() for addr in provider_addresses.split(",")]
split_and_strip(v) ==
    IF v.kind = "str" THEN [i \in 1..Len(v.items) |-> strip(v.items[i])] ELSE v.items

too_few(l) == l = <<>> \/ Len(l) < MIN_PROVIDERS

\* >= for >
too_many_inclusive(l) == Len(l) >= MAX_PROVIDERS

too_many(l) == Len(l) > MAX_PROVIDERS

\* the validation loop: the first address that is not valid, if any
has_invalid(l) == \E i \in 1..Len(l) : ~is_address(l[i])

first_invalid(l) ==
    l[CHOOSE i \in 1..Len(l) :
        /\ ~is_address(l[i])
        /\ \A j \in 1..(i - 1) : is_address(l[j])]

\* list.sort(key=score, reverse=True): stable, equal scores keep their order
sort_insert(x, t) ==
    LET k == Cardinality({j \in 1..Len(t) : t[j].score >= x.score}) IN
    SubSeq(t, 1, k) \o <<x>> \o SubSeq(t, k + 1, Len(t))

RECURSIVE sort_by_score_desc(_)
sort_by_score_desc(s) ==
    IF s = <<>> THEN <<>>
    ELSE sort_insert(s[Len(s)], sort_by_score_desc(SubSeq(s, 1, Len(s) - 1)))

\* best_provider[:10]; every address spelling of the model is shorter
preview(a) == a

reasoning(best_provider, best_score) ==
    IF best_score >= ELITE_SCORE
    THEN "Provider " \o preview(best_provider) \o "... is Elite tier with score "
         \o ToString(best_score) \o ". Highly recommended."
    ELSE IF best_score >= EXCELLENT_SCORE
    THEN "Provider " \o preview(best_provider) \o "... has Excellent rating ("
         \o ToString(best_score) \o "). Good choice for most payments."
    ELSE IF best_score >= GOOD_SCORE
    THEN "Provider " \o preview(best_provider) \o "... has Good rating ("
         \o ToString(best_score) \o "). Use with escrow protection."
    ELSE "All providers have low scores. Best available is " \o preview(best_provider)
         \o "... with score " \o ToString(best_score) \o ". Proceed with caution."

\* the end of compare_providers, after the loop over the providers
compare_providers_result(comparison, best_provider, best_score) ==
    IF best_provider = None
    THEN [error |-> "'NoneType' object is not subscriptable"]
    ELSE [ comparison |-> sort_by_score_desc(comparison),
           recommended |-> best_provider,
           reasoning |-> reasoning(best_provider, best_score),
           total_providers |-> Len(comparison) ]

\* run(params) and the part of compare_providers that precedes its first
\* remote call
compare_providers_run ==
    /\ pc = "idle"
    /\ \E keys \in SUBSET {"provider_addresses"}, v \in ListInputs :
         LET p == Pick(keys, [provider_addresses |-> v])
             l == split_and_strip(v)
         IN
         /\ act' = "compare_providers"
         /\ params' = p
         /\ UNCHANGED <<keyPresent, calls>>
         /\ IF is_missing(p, "provider_addresses")
            THEN Returns([error |-> "provider_addresses is required"])
                 /\ UNCHANGED loc
            ELSE IF too_few(l)
            THEN Returns([error |-> "At least 2 provider addresses required for comparison"])
                 /\ UNCHANGED loc
            ELSE IF too_many(l)
            THEN Returns([error |-> "Maximum 10 providers can be compared at once"])
                 /\ UNCHANGED loc
            ELSE IF has_invalid(l)
            THEN Returns(invalid_address_error(first_invalid(l)))
                 /\ UNCHANGED loc
            ELSE /\ loc' = [loc EXCEPT
                              !.addrs = [i \in 1..Len(l) |-> to_checksum_address(l[i])]]
                 /\ Goto("cmp_compareProviders")

compare_providers_compareProviders ==
    /\ pc = "cmp_compareProviders"
    /\ UNCHANGED <<act, params, keyPresent>>
    /\ \E ok \in BOOLEAN, view \in ChainViews :
         /\ calls' = Append(calls, Call("compareProviders", None, 0, ok))
         /\ IF ~ok
            THEN Returns([error |-> RpcError("compareProviders")]) /\ UNCHANGED loc
            ELSE /\ loc' = [loc EXCEPT !.view = view, !.i = 1]
                 /\ Goto("cmp_getTrustTier")

compare_providers_getTrustTier ==
    /\ pc = "cmp_getTrustTier"
    /\ UNCHANGED <<act, params, keyPresent>>
    /\ \E ok \in BOOLEAN, tier \in {"Good"} :
         /\ calls' = Append(calls, Call("getTrustTier", None, 0, ok))
         /\ IF ~ok
            THEN Returns([error |-> RpcError("getTrustTier")]) /\ UNCHANGED loc
            ELSE /\ loc' = [loc EXCEPT !.tier = tier]
                 /\ Goto("cmp_needsEscrow")

\* the rest of one loop iteration and, after the last one, the sort and
\* the result
compare_providers_needsEscrow ==
    /\ pc = "cmp_needsEscrow"
    /\ UNCHANGED <<act, params, keyPresent>>
    /\ \E ok \in BOOLEAN :
         LET addr == loc.addrs[loc.i]
             score == loc.view[addr].score
             provider_info ==
                 [ address |-> addr,
                   score |-> score,
                   tier |-> loc.tier,
                   timeout_minutes |-> loc.view[addr].timeout \div SECONDS_PER_MINUTE,
                   escrow_required |-> loc.view[addr].needs_escrow,
                   recommendation |-> get_recommendation(score) ]
             comparison == Append(loc.comparison, provider_info)
             better == score > loc.best_score
             best_score == IF better THEN score ELSE loc.best_score
             best_provider == IF better THEN addr ELSE loc.best_provider
         IN
         /\ calls' = Append(calls, Call("needsEscrow", None, 0, ok))
         /\ IF ~ok
            THEN Returns([error |-> RpcError("needsEscrow")]) /\ UNCHANGED loc
            ELSE /\ loc' = [loc EXCEPT !.comparison = comparison,
                                       !.best_score = best_score,
                                       !.best_provider = best_provider,
                                       !.i = loc.i + 1]
                 /\ IF loc.i = Len(loc.addrs)
                    THEN Returns(compare_providers_result(comparison, best_provider, best_score))
                    ELSE Goto("cmp_getTrustTier")

(***************************************************************************)
(* Signed transactions: build_transaction and send_transaction (utils.py). *)
(* loc.tx is the contract function of the transaction under way.           *)
(***************************************************************************)
\* what `except Exception as e` of the running action returns
exception_result(action, message) ==
    IF action = "confirm_delivery"
    THEN [error |-> message, success |-> FALSE]
    ELSE [error |-> message]

\* the failure is swallowed and the same call is made again
Fails_retry(op) == pc' = pc /\ UNCHANGED <<outcome, result>>

\* a remote call of the running action raises inside its try block
Fails(op) == Returns(exception_result(act, RpcError(op)))

\* the amount argument of the transaction, for the calls record
tx_arg(tx) == IF tx \in {"approve", "createPayment"} THEN loc.amount_wei ELSE 0

\* one remote call of send_transaction that returns nothing the action keeps
TxStep(label, op, next) ==
    /\ pc = label
    /\ UNCHANGED <<act, params, keyPresent, loc>>
    /\ \E ok \in BOOLEAN :
         /\ calls' = Append(calls, Call(op, loc.tx, tx_arg(loc.tx), ok))
         /\ IF ~ok THEN Fails(op) ELSE Goto(next)

\* ...build_transaction({"from": account.address, "chainId": w3.eth.chain_id})
build_transaction == TxStep("tx_build", "chain_id", "tx_nonce")

send_transaction_nonce == TxStep("tx_nonce", "get_transaction_count", "tx_estimate_gas")

send_transaction_estimate_gas == TxStep("tx_estimate_gas", "estimate_gas", "tx_gas_price")

send_transaction_gas_price == TxStep("tx_gas_price", "gas_price", "tx_send")

\* sign_transaction is local; send_raw_transaction submits the transaction
send_transaction_send_raw == TxStep("tx_send", "send_raw_transaction", "tx_wait")

TX_HASH == "0x7a"

PAYMENT_CREATED == "PaymentCreated(bytes32,address,address,uint256,bool,uint256)"

DISPUTE_RAISED == "DisputeRaised(bytes32,bytes32)"

\* a log entry: its topics as hex strings (topics[1] is the event signature),
\* the length of its data, the second and third 32-byte words of the data as
\* integers, and the data as a hex string
Log(topics, datalen, word1, word2, datahex) ==
    [topics |-> topics, datalen |-> datalen, word1 |-> word1, word2 |-> word2,
     datahex |-> datahex]

OtherLog == Log(<<"Transfer(address,address,uint256)", "0xEe9">>, 32, 0, 0, "00")

PaymentLogs ==
    { <<>>,
      <<Log(<<PAYMENT_CREATED, "0xa1", "0xEe9">>, 96, 0, 1800, "00")>>,
      <<Log(<<PAYMENT_CREATED, "0xa1", "0xEe9">>, 64, 1, 0, "00")>>,
      <<Log(<<PAYMENT_CREATED, "0xa1">>, 32, 0, 0, "00")>>,
      <<Log(<<PAYMENT_CREATED>>, 96, 1, 1800, "00")>>,
      <<OtherLog>>,
      <<Log(<<>>, 0, 0, 0, "")>>,
      <<OtherLog, Log(<<PAYMENT_CREATED, "0xa1", "0xEe9">>, 96, 1, 600, "00")>> }

DisputeLogs ==
    { <<>>,
      <<Log(<<DISPUTE_RAISED, "0xa1", "0xd1">>, 0, 0, 0, "")>>,
      <<Log(<<DISPUTE_RAISED, "0xa1">>, 32, 0, 0, "d1")>>,
      <<Log(<<DISPUTE_RAISED, "0xa1">>, 0, 0, 0, "")>>,
      <<Log(<<DISPUTE_RAISED>>, 32, 0, 0, "d1")>>,
      <<OtherLog>> }

ReceiptLogs(tx) ==
    IF tx = "createPayment" THEN PaymentLogs
    ELSE IF tx = "raiseDispute" THEN DisputeLogs
    ELSE {<<>>}

(***************************************************************************)
(* secure_payment                                                          *)
(***************************************************************************)
\* amount_usdc is the number (micro + f) / 10^6 with f = 0, or 0 < f < 1 when
\* frac; or a string that is not a number; or the float NaN
AmountInputs ==
    {[kind |-> "num", micro |-> m, frac |-> f] :
        m \in {0 - USDC_UNIT, 0, USDC_UNIT - 1, USDC_UNIT, 2 * USDC_UNIT + 500000},
        f \in BOOLEAN}
    \cup {[kind |-> "text", micro |-> 0, frac |-> FALSE],
          [kind |-> "nan", micro |-> 0, frac |-> FALSE]}

BalanceVals == {0, USDC_UNIT, 2 * USDC_UNIT + 500000, 5 * USDC_UNIT}

AllowanceVals == {0, USDC_UNIT, 2 * USDC_UNIT + 500000, 5 * USDC_UNIT}

DescriptionInputs == {"", "api call"}

\* amount_usdc < 1
below_minimum(a) == a.kind = "num" /\ a.micro < MIN_PAYMENT * USDC_UNIT

\* int(amount_usdc * 1e6), for an amount that is not below the minimum
to_wei(a) == a.micro

invalid_provider_address_error(a) == [error |-> "Invalid provider address: " \o a]

\* <= for <
needs_approval_inclusive(allowance, amount_wei) == allowance <= amount_wei

needs_approval(allowance, amount_wei) == allowance < amount_wei

\* one iteration of the loop over receipt.logs
payment_log_step(st, log) ==
    IF Len(log.topics) >= 1 /\ log.topics[1] = PAYMENT_CREATED
    THEN IF Len(log.topics) < 2
         THEN [st EXCEPT !.raised = TRUE]
         ELSE IF log.datalen >= 64
         THEN [st EXCEPT !.payment_id = log.topics[2],
                         !.escrow_used = (log.word1 = 1),
                         !.timeout = IF log.datalen >= 96 THEN log.word2
                                     ELSE DEFAULT_TIMEOUT]
         ELSE [st EXCEPT !.payment_id = log.topics[2]]
    ELSE st

RECURSIVE parse_payment_logs(_, _)
parse_payment_logs(logs, st) ==
    IF logs = <<>> \/ st.raised THEN st
    ELSE parse_payment_logs(Tail(logs), payment_log_step(st, Head(logs)))

\* the end of secure_payment, after the receipt of createPayment
secure_payment_result(receipt) ==
    LET st == parse_payment_logs(receipt.logs,
                  [payment_id |-> None, escrow_used |-> TRUE,
                   timeout |-> DEFAULT_TIMEOUT, raised |-> FALSE])
    IN
    IF st.raised
    THEN [error |-> "list index out of range"]
    ELSE [ payment_id |-> IF st.payment_id = None THEN receipt.transactionHash
                          ELSE st.payment_id,
           escrow_used |-> st.escrow_used,
           timeout_minutes |-> st.timeout \div SECONDS_PER_MINUTE,
           transaction_hash |-> receipt.transactionHash,
           amount_usdc |-> loc.amount_usdc,
           provider |-> loc.provider ]

\* run(params) and the part of secure_payment that precedes its first
\* remote call
secure_payment_run ==
    /\ pc = "idle"
    /\ \E keys \in SUBSET {"provider_address", "amount_usdc", "request_description"},
          a \in AddrInputs, m \in AmountInputs, d \in DescriptionInputs :
         LET p == Pick(keys, [provider_address |-> a, amount_usdc |-> m,
                              request_description |-> d])
         IN
         /\ act' = "secure_payment"
         /\ params' = p
         /\ UNCHANGED <<keyPresent, calls>>
         /\ IF is_missing(p, "provider_address")
            THEN Returns([error |-> "provider_address is required"])
                 /\ UNCHANGED loc
            ELSE IF is_missing(p, "amount_usdc")
            THEN Returns([error |-> "amount_usdc is required"])
                 /\ UNCHANGED loc
            ELSE IF is_missing(p, "request_description")
            THEN Returns([error |-> "request_description is required"])
                 /\ UNCHANGED loc
            ELSE IF p.amount_usdc.kind = "text"
            THEN Raises("ValueError: could not convert string to float")
                 /\ UNCHANGED loc
            ELSE IF ~keyPresent
            THEN Raises("ValueError: EVM_PRIVATE_KEY not configured")
                 /\ UNCHANGED loc
            ELSE IF ~is_address(p.provider_address)
            THEN Returns(invalid_provider_address_error(p.provider_address))
                 /\ UNCHANGED loc
            ELSE IF below_minimum(p.amount_usdc)
            THEN Returns([error |-> "Minimum payment is 1 USDC"])
                 /\ UNCHANGED loc
            ELSE IF p.amount_usdc.kind = "nan"
            THEN Raises("ValueError: cannot convert float NaN to integer")
                 /\ UNCHANGED loc
            ELSE /\ loc' = [loc EXCEPT
                              !.provider = to_checksum_address(p.provider_address),
                              !.amount_usdc = p.amount_usdc,
                              !.amount_wei = to_wei(p.amount_usdc),
                              !.text = p.request_description]
                 /\ Goto("sp_balanceOf")

secure_payment_balanceOf ==
    /\ pc = "sp_balanceOf"
    /\ UNCHANGED <<act, params, keyPresent, loc>>
    /\ \E ok \in BOOLEAN, balance \in BalanceVals :
         /\ calls' = Append(calls, Call("balanceOf", None, 0, ok))
         /\ IF ~ok
            THEN Fails("balanceOf")
            ELSE IF balance < loc.amount_wei
            THEN Returns([error |-> "Insufficient USDC balance. Have: "
                                    \o ToString(balance) \o "e-6, Need: "
                                    \o ToString(loc.amount_usdc.micro) \o "e-6"])
            ELSE Goto("sp_allowance")

secure_payment_allowance ==
    /\ pc = "sp_allowance"
    /\ UNCHANGED <<act, params, keyPresent>>
    /\ \E ok \in BOOLEAN, allowance \in AllowanceVals :
         /\ calls' = Append(calls, Call("allowance", None, 0, ok))
         /\ IF ~ok
            THEN Fails("allowance") /\ UNCHANGED loc
            ELSE /\ loc' = [loc EXCEPT
                              !.allowance = allowance,
                              !.tx = IF needs_approval(allowance, loc.amount_wei)
                                     THEN "approve" ELSE "createPayment"]
                 /\ Goto("tx_build")

(***************************************************************************)
(* confirm_delivery and raise_dispute                                      *)
(***************************************************************************)
PaymentIdInputs == {"", "0xa1", "a1", "zz"}

TextInputs == {"", "text"}

FAST_TRACK_LIMIT == FAST_TRACK_UNITS * USDC_UNIT

COMPLEX_LIMIT == COMPLEX_UNITS * USDC_UNIT

PaymentAmounts ==
    {FAST_TRACK_LIMIT \div 2, FAST_TRACK_LIMIT - 1, FAST_TRACK_LIMIT, FAST_TRACK_LIMIT + 1,
     COMPLEX_LIMIT \div 2, COMPLEX_LIMIT - 1, COMPLEX_LIMIT, COMPLEX_LIMIT + 1,
     COMPLEX_LIMIT + COMPLEX_LIMIT \div 2}

StatusVals == 0..5

\* the tuple getPayment returns, by the fields the actions read
Payments ==
    [buyer : {"0xEe9", "0xee9", "0xAb1"}, provider : {"0xCd2"},
     amount : PaymentAmounts, status : StatusVals]

status_names(status) ==
    CASE status = 0 -> "None"
      [] status = 1 -> "Pending"
      [] status = 2 -> "Completed"
      [] status = 3 -> "Refunded"
      [] status = 4 -> "Disputed"
      [] status = 5 -> "Stuck"
      [] OTHER -> "Unknown"

\* a check that only rejects the statuses after Pending
not_pending_after(status) == status > PENDING

not_pending(status) == status # PENDING

\* buyer.lower() != account.address.lower()
not_buyer(buyer, account) == lower(buyer) # lower(account)

\* DISPUTE_TRACKS
DISPUTE_TRACKS(track) ==
    CASE track = 0 -> [name |-> "FastTrack", hours |-> 60]
      [] track = 1 -> [name |-> "Standard", hours |-> 120]
      [] track = 2 -> [name |-> "Complex", hours |-> 192]

\* <= for <
dispute_track_inclusive(amount) ==
    IF amount <= FAST_TRACK_LIMIT THEN 0
    ELSE IF amount >= COMPLEX_LIMIT THEN 2
    ELSE 1

\* the track raise_dispute derives from the amount
dispute_track(amount) ==
    IF amount < FAST_TRACK_LIMIT THEN 0
    ELSE IF amount >= COMPLEX_LIMIT THEN 2
    ELSE 1

\* one iteration of the loop over receipt.logs
dispute_log_step(dispute_id, log) ==
    IF Len(log.topics) >= 2 /\ log.topics[1] = DISPUTE_RAISED
    THEN IF Len(log.topics) > 2 THEN log.topics[3] ELSE log.datahex
    ELSE dispute_id

RECURSIVE parse_dispute_logs(_, _)
parse_dispute_logs(logs, dispute_id) ==
    IF logs = <<>> THEN dispute_id
    ELSE parse_dispute_logs(Tail(logs), dispute_log_step(dispute_id, Head(logs)))

\* the end of raise_dispute, after the receipt of raiseDispute
raise_dispute_result(receipt) ==
    LET track_info == DISPUTE_TRACKS(dispute_track(loc.payment.amount))
        dispute_id == parse_dispute_logs(receipt.logs, None)
    IN
    [ dispute_id |-> IF dispute_id = None \/ dispute_id = ""
                     THEN receipt.transactionHash ELSE dispute_id,
      payment_id |-> loc.payment_id,
      track |-> track_info.name,
      resolution_hours |-> track_info.hours,
      transaction_hash |-> receipt.transactionHash,
      reason |-> loc.text,
      amount_disputed |-> [micro |-> loc.payment.amount] ]

\* run(params) of confirm_delivery (second = "response_data") and of
\* raise_dispute (second = "reason"), and the part of the action that precedes
\* its first remote call
payment_action_run(action, second) ==
    /\ pc = "idle"
    /\ \E keys \in SUBSET {"payment_id", second},
          id \in PaymentIdInputs, t \in TextInputs :
         LET p == Pick(keys, [k \in {"payment_id", second} |->
                                 IF k = "payment_id" THEN id ELSE t])
         IN
         /\ act' = action
         /\ params' = p
         /\ UNCHANGED <<keyPresent, calls>>
         /\ IF is_missing(p, "payment_id")
            THEN Returns([error |-> "payment_id is required"])
                 /\ UNCHANGED loc
            ELSE IF is_missing(p, second)
            THEN Returns([error |-> second \o " is required"])
                 /\ UNCHANGED loc
            ELSE IF ~keyPresent
            THEN Raises("ValueError: EVM_PRIVATE_KEY not configured")
                 /\ UNCHANGED loc
            ELSE IF ~is_hex(p.payment_id)
            THEN Returns(exception_result(action,
                             "non-hexadecimal number found in fromhex() arg"))
                 /\ UNCHANGED loc
            ELSE /\ loc' = [loc EXCEPT !.payment_id = p.payment_id, !.text = p[second]]
                 /\ Goto("pay_getPayment")

confirm_delivery_run == payment_action_run("confirm_delivery", "response_data")

raise_dispute_run == payment_action_run("raise_dispute", "reason")

\* getPayment and the two checks that follow it, in either action
payment_action_getPayment(action, status_message, buyer_message, tx) ==
    /\ pc = "pay_getPayment"
    /\ act = action
    /\ UNCHANGED <<act, params, keyPresent>>
    /\ \E ok \in BOOLEAN, payment \in Payments :
         /\ calls' = Append(calls, Call("getPayment", None, 0, ok))
         /\ IF ~ok
            THEN Fails("getPayment") /\ UNCHANGED loc
            ELSE IF not_pending(payment.status)
            THEN Returns([error |-> status_message \o status_names(payment.status)])
                 /\ loc' = [loc EXCEPT !.payment = payment]
            ELSE IF not_buyer(payment.buyer, ACCOUNT_ADDRESS)
            THEN Returns([error |-> buyer_message])
                 /\ loc' = [loc EXCEPT !.payment = payment]
            ELSE /\ loc' = [loc EXCEPT !.payment = payment, !.provider = payment.provider,
                                       !.tx = tx]
                 /\ Goto("tx_build")

confirm_delivery_getPayment ==
    payment_action_getPayment("confirm_delivery", "Payment not pending. Status: ",
                              "Only buyer can confirm delivery", "confirmDelivery")

raise_dispute_getPayment ==
    payment_action_getPayment("raise_dispute", "Cannot dispute. Payment status: ",
                              "Only buyer can raise dispute", "raiseDispute")

\* the read of the provider's score after the receipt of confirmDelivery
confirm_delivery_getProviderInfo ==
    /\ pc = "cd_getProviderInfo"
    /\ UNCHANGED <<act, params, keyPresent, loc>>
    /\ \E ok \in BOOLEAN, new_score \in {EXCELLENT_SCORE} :
         /\ calls' = Append(calls, Call("getProviderInfo", None, 0, ok))
         /\ IF ~ok
            THEN Fails("getProviderInfo")
            ELSE Returns([ success |-> TRUE,
                           transaction_hash |-> loc.receipt.transactionHash,
                           provider |-> loc.provider,
                           provider_new_score |-> new_score,
                           amount_released |-> [micro |-> loc.payment.amount] ])

\* wait_for_transaction_receipt, and what the action does with the receipt
send_transaction_wait ==
    /\ pc = "tx_wait"
    /\ UNCHANGED <<act, params, keyPresent>>
    /\ \E ok \in BOOLEAN, logs \in ReceiptLogs(loc.tx) :
         LET receipt == [transactionHash |-> TX_HASH, logs |-> logs] IN
         /\ calls' = Append(calls,
                Call("wait_for_transaction_receipt", loc.tx, tx_arg(loc.tx), ok))
         /\ IF ~ok
            THEN Fails("wait_for_transaction_receipt") /\ UNCHANGED loc
            ELSE CASE loc.tx = "approve" ->
                        /\ loc' = [loc EXCEPT !.tx = "createPayment"]
                        /\ Goto("tx_build")
                   [] loc.tx = "createPayment" ->
                        /\ loc' = [loc EXCEPT !.receipt = receipt]
                        /\ Returns(secure_payment_result(receipt))
                   [] loc.tx = "confirmDelivery" ->
                        /\ loc' = [loc EXCEPT !.receipt = receipt]
                        /\ Goto("cd_getProviderInfo")
                   [] loc.tx = "raiseDispute" ->
                        /\ loc' = [loc EXCEPT !.receipt = receipt]
                        /\ Returns(raise_dispute_result(receipt))

(***************************************************************************)
(* The caller takes the result; the process is ready for the next          *)
(* invocation.  No state is kept between invocations.                      *)
(***************************************************************************)
Return ==
    /\ pc = "done"
    /\ pc' = "idle"
    /\ act' = None
    /\ params' = <<>>
    /\ loc' = LocInit
    /\ calls' = <<>>
    /\ outcome' = "none"
    /\ result' = <<>>
    /\ UNCHANGED keyPresent

Next ==
    \/ check_provider_run
    \/ check_provider_getProviderInfo
    \/ check_provider_getTrustTier
    \/ check_provider_needsEscrow
    \/ compare_providers_run
    \/ compare_providers_compareProviders
    \/ compare_providers_getTrustTier
    \/ compare_providers_needsEscrow
    \/ secure_payment_run
    \/ secure_payment_balanceOf
    \/ secure_payment_allowance
    \/ confirm_delivery_run
    \/ confirm_delivery_getPayment
    \/ confirm_delivery_getProviderInfo
    \/ raise_dispute_run
    \/ raise_dispute_getPayment
    \/ build_transaction
    \/ send_transaction_nonce
    \/ send_transaction_estimate_gas
    \/ send_transaction_gas_price
    \/ send_transaction_send_raw
    \/ send_transaction_wait
    \/ Return

Spec == Init /\ [][Next]_vars

(***************************************************************************)
(* Vocabulary of the properties.                                           *)
(***************************************************************************)
Done == pc = "done"

ReturnedError == outcome = "returned" /\ "error" \in DOMAIN result

ReturnedExactly(r) == outcome = "returned" /\ result = r

NoNetworkCall == calls = <<>>

CallsOf(op) == {i \in DOMAIN calls : calls[i].op = op}

\* the required parameters of each action, in declaration order
Required(action) ==
    CASE action = "check_provider" -> <<"provider_address">>
      [] action = "compare_providers" -> <<"provider_addresses">>
      [] action = "secure_payment" ->
            <<"provider_address", "amount_usdc", "request_description">>
      [] action = "confirm_delivery" -> <<"payment_id", "response_data">>
      [] action = "raise_dispute" -> <<"payment_id", "reason">>

\* parameter k is absent from the map, or empty
Absent(k) ==
    \/ k \notin DOMAIN params
    \/ CASE k = "amount_usdc" ->
              params[k].kind = "num" /\ params[k].micro = 0 /\ ~params[k].frac
         [] k = "provider_addresses" ->
              params[k].items = (IF params[k].kind = "str" THEN <<"">> ELSE <<>>)
         [] OTHER -> params[k] = ""

\* run(params) has passed every required parameter on to the action
Entered ==
    /\ act # None
    /\ \A i \in DOMAIN Required(act) : ~Absent(Required(act)[i])
    /\ act = "secure_payment" => params.amount_usdc.kind # "text"

\* the address spellings that pass format validation
ValidSpellings == {"0xAb1", "0xab1", "0xCd2", "0xcd2", "0xEe9", "0xee9"}

\* the addresses compare_providers is given: the list, or the segments of the
\* string with the blanks around each segment removed
Trimmed(x) ==
    CASE x = " 0xAb1" -> "0xAb1"
      [] x = "0xcd2 " -> "0xcd2"
      [] x = " bad " -> "bad"
      [] x = " " -> ""
      [] OTHER -> x

GivenList ==
    LET v == params.provider_addresses IN
    IF v.kind = "str" THEN [i \in DOMAIN v.items |-> Trimmed(v.items[i])] ELSE v.items

\* the first address of the invocation that fails format validation
HasBadAddress ==
    IF act = "compare_providers"
    THEN \E i \in DOMAIN GivenList : GivenList[i] \notin ValidSpellings
    ELSE params.provider_address \notin ValidSpellings

BadAddress ==
    IF act = "compare_providers"
    THEN GivenList[CHOOSE i \in DOMAIN GivenList :
                      /\ GivenList[i] \notin ValidSpellings
                      /\ \A j \in 1..(i - 1) : GivenList[j] \in ValidSpellings]
    ELSE params.provider_address

\* an action that takes provider addresses was given one that is not valid
\* (compare_providers: in a list of 2 to 10 addresses)
InvalidAddressCase ==
    /\ Done
    /\ act \in {"check_provider", "compare_providers", "secure_payment"}
    /\ Entered
    /\ act = "compare_providers" => Len(GivenList) \in 2..10
    /\ HasBadAddress

(***************************************************************************)
(* C1, for parameters of the declared types.  No exception ever leaves an  *)
(* action: every invocation of each of the five actions, whatever the      *)
(* signing key and the remote side do, ends by returning a result map.     *)
(***************************************************************************)
\* amount_usdc, when given, is a number
DeclaredTypes ==
    act = "secure_payment" /\ "amount_usdc" \in DOMAIN params =>
        params.amount_usdc.kind = "num"

C1_NoExceptionEscapes == Done /\ DeclaredTypes => outcome = "returned"

(***************************************************************************)
(* C2, as stated, for the invocations that return.  An address that fails  *)
(* format validation makes check_provider, compare_providers and           *)
(* secure_payment return exactly {error: "Invalid address: <input>"},      *)
(* without any network call.                                               *)
(***************************************************************************)
C2_InvalidAddressSameError ==
    InvalidAddressCase /\ outcome = "returned" =>
        /\ result = [error |-> "Invalid address: " \o BadAddress]
        /\ NoNetworkCall

(***************************************************************************)
(* C2, amended.  On an address that fails format validation,               *)
(* check_provider and compare_providers return exactly                     *)
(* {error: "Invalid address: <input>"}; secure_payment returns exactly     *)
(* {error: "Invalid provider address: <input>"} when the signing key is    *)
(* configured, and otherwise ends with the missing-key exception before    *)
(* it looks at the address; none of the three makes a network call.        *)
(***************************************************************************)
C2_InvalidAddressErrors ==
    InvalidAddressCase =>
        /\ NoNetworkCall
        /\ act # "secure_payment" =>
              ReturnedExactly([error |-> "Invalid address: " \o BadAddress])
        /\ act = "secure_payment" /\ keyPresent =>
              ReturnedExactly([error |-> "Invalid provider address: " \o BadAddress])
        /\ act = "secure_payment" /\ ~keyPresent =>
              /\ outcome = "raised"
              /\ result = [exception |-> "ValueError: EVM_PRIVATE_KEY not configured"]

C2_Witness ==
    /\ InvalidAddressCase
    /\ act = "secure_payment"
    /\ ReturnedExactly([error |-> "Invalid provider address: bad"])
    /\ NoNetworkCall

(***************************************************************************)
(* C3.  Whenever compare_providers has been given 2 to 10 valid addresses  *)
(* and every remote call has answered, whatever the scores (all 0, ties),  *)
(* it returns the comparison sorted by score descending, equal scores in   *)
(* input order, and recommends the first address of the input that has     *)
(* the maximum score.                                                      *)
(***************************************************************************)
\* the records with score v, in the order of s
WithScore(s, v) == SelectSeq(s, LAMBDA r : r.score = v)

Max(S) == CHOOSE m \in S : \A x \in S : x <= m

RECURSIVE ByScoreDescending(_, _)
ByScoreDescending(s, scores) ==
    IF scores = {} THEN <<>>
    ELSE WithScore(s, Max(scores)) \o ByScoreDescending(s, scores \ {Max(scores)})

\* the first address of s whose score is the maximum
FirstMaximum(s) ==
    LET top == Max({s[i].score : i \in DOMAIN s}) IN
    s[CHOOSE i \in DOMAIN s :
         /\ s[i].score = top
         /\ \A j \in 1..(i - 1) : s[j].score # top].address

\* every provider of the list has been read without a failure
ComparisonComplete ==
    /\ Done
    /\ act = "compare_providers"
    /\ calls # <<>>
    /\ \A i \in DOMAIN calls : calls[i].ok
    /\ Len(loc.comparison) = Len(loc.addrs)

C3_SortedAndFirstMaximum ==
    ComparisonComplete =>
        /\ outcome = "returned"
        /\ DOMAIN result = {"comparison", "recommended", "reasoning", "total_providers"}
        /\ result.comparison =
              ByScoreDescending(loc.comparison,
                                {loc.comparison[i].score : i \in DOMAIN loc.comparison})
        /\ result.recommended = FirstMaximum(loc.comparison)

(***************************************************************************)
(* C4.  In confirm_delivery and raise_dispute, once getPayment has         *)
(* answered: a status other than Pending ends the invocation with an       *)
(* error that names the status; a Pending payment whose buyer is not the   *)
(* signing account, compared without regard to case, ends it with an       *)
(* error; and in both cases getPayment stays the only remote call of the   *)
(* invocation, so no transaction is submitted.                             *)
(***************************************************************************)
StatusName(n) == <<"None", "Pending", "Completed", "Refunded", "Disputed", "Stuck">>[n + 1]

PaymentRead ==
    /\ act \in {"confirm_delivery", "raise_dispute"}
    /\ calls # <<>>
    /\ calls[1].op = "getPayment"
    /\ calls[1].ok

\* the spellings of the signing account's address, in any case
AccountSpellings == {"0xEe9", "0xee9"}

C4_RejectedPaymentSubmitsNothing ==
    PaymentRead /\ (loc.payment.status # 1 \/ loc.payment.buyer \notin AccountSpellings) =>
        /\ Done
        /\ outcome = "returned"
        /\ DOMAIN result = {"error"}
        /\ Len(calls) = 1
        /\ loc.payment.status # 1 =>
              result.error =
                  (IF act = "confirm_delivery" THEN "Payment not pending. Status: "
                   ELSE "Cannot dispute. Payment status: ")
                  \o StatusName(loc.payment.status)
        /\ loc.payment.status = 1 =>
              result.error =
                  (IF act = "confirm_delivery" THEN "Only buyer can confirm delivery"
                   ELSE "Only buyer can raise dispute")

C4_Witness ==
    /\ PaymentRead
    /\ act = "raise_dispute"
    /\ loc.payment.status = 1
    /\ loc.payment.buyer = "0xAb1"
    /\ Done
    /\ result = [error |-> "Only buyer can raise dispute"]
    /\ Len(calls) = 1

(***************************************************************************)
(* C5.  In each of the five run entry points, a required parameter that    *)
(* is missing from the map, or empty, gives exactly                        *)
(* {error: "<param> is required"} for the first such parameter in          *)
(* declaration order, and no network call.                                 *)
(***************************************************************************)
FirstAbsent ==
    Required(act)[CHOOSE i \in DOMAIN Required(act) :
                     /\ Absent(Required(act)[i])
                     /\ \A j \in 1..(i - 1) : ~Absent(Required(act)[j])]

SomeAbsent == act # None /\ \E i \in DOMAIN Required(act) : Absent(Required(act)[i])

C5_MissingParameter ==
    SomeAbsent =>
        /\ Done
        /\ ReturnedExactly([error |-> FirstAbsent \o " is required"])
        /\ NoNetworkCall

C5_Witness ==
    /\ act = "secure_payment"
    /\ "provider_address" \in DOMAIN params
    /\ params.provider_address = "0xAb1"
    /\ "amount_usdc" \notin DOMAIN params
    /\ "request_description" \notin DOMAIN params
    /\ ReturnedExactly([error |-> "amount_usdc is required"])
    /\ NoNetworkCall

(***************************************************************************)
(* C6.  compare_providers given fewer than 2 or more than 10 addresses     *)
(* (for the string form: segments between commas) returns an error map     *)
(* and makes no network call; given 2 to 10 addresses it never returns     *)
(* one of the two size errors.                                             *)
(***************************************************************************)
SizeErrors ==
    {"At least 2 provider addresses required for comparison",
     "Maximum 10 providers can be compared at once"}

ListGiven == act = "compare_providers" /\ "provider_addresses" \in DOMAIN params

C6_ListSize ==
    ListGiven =>
        LET n == Len(params.provider_addresses.items) IN
        /\ n < 2 \/ n > 10 =>
              /\ Done
              /\ outcome = "returned"
              /\ DOMAIN result = {"error"}
              /\ NoNetworkCall
        /\ n >= 2 /\ n <= 10 =>
              ~(ReturnedError /\ result.error \in SizeErrors)

C6_Witness ==
    /\ ListGiven
    /\ Len(params.provider_addresses.items) = 11
    /\ ReturnedExactly([error |-> "Maximum 10 providers can be compared at once"])
    /\ NoNetworkCall

(***************************************************************************)
(* C7.  secure_payment invoked with amount_usdc < 1 always returns an      *)
(* error map, and never issues balanceOf, allowance, approve or            *)
(* createPayment.                                                          *)
(***************************************************************************)
BelowOne ==
    /\ act = "secure_payment"
    /\ "amount_usdc" \in DOMAIN params
    /\ params.amount_usdc.kind = "num"
    /\ params.amount_usdc.micro < 1000000

C7_BelowMinimumReturnsError ==
    BelowOne =>
        /\ Done
        /\ ReturnedError
        /\ NoNetworkCall

(***************************************************************************)
(* C8.  The track a successful raise_dispute reports for a payment of a    *)
(* smallest units: FastTrack with 60 hours iff a < 100_000_000; Complex    *)
(* with 192 hours iff a >= 1_000_000_000; Standard with 120 hours          *)
(* otherwise.                                                              *)
(***************************************************************************)
DisputeRaised ==
    /\ Done
    /\ act = "raise_dispute"
    /\ outcome = "returned"
    /\ "track" \in DOMAIN result

C8_DisputeTrack ==
    DisputeRaised =>
        LET a == loc.payment.amount
            fast == result.track = "FastTrack" /\ result.resolution_hours = 60
            standard == result.track = "Standard" /\ result.resolution_hours = 120
            complex == result.track = "Complex" /\ result.resolution_hours = 192
        IN
        /\ fast <=> a < 100000000
        /\ complex <=> a >= 1000000000
        /\ standard <=> (a >= 100000000 /\ a < 1000000000)

C8_Witness ==
    /\ DisputeRaised
    /\ loc.payment.amount = 100000000
    /\ result.track = "Standard"
    /\ result.resolution_hours = 120

(***************************************************************************)
(* C9.  get_recommendation(s) is the Elite text iff s >= 850, the          *)
(* Excellent text iff 700 <= s < 850, the Good text iff 500 <= s < 700,    *)
(* the Fair text iff 400 <= s < 500 and the Poor text iff s < 400, so      *)
(* the assurance of the text never decreases as the score increases.       *)
(* Checked on every recommendation check_provider and compare_providers    *)
(* put in a result.                                                        *)
(***************************************************************************)
\* the assurance level of a recommendation text: Poor 0 .. Elite 4
Assurance(text) ==
    CASE text = "Not recommended - Poor track record, high risk" -> 0
      [] text = "Caution - Fair provider, escrow strongly recommended" -> 1
      [] text = "Acceptable - Good provider, use with escrow protection" -> 2
      [] text = "Recommended - Excellent provider, low risk" -> 3
      [] text = "Highly recommended - Elite provider with excellent track record" -> 4

RightText(s, text) ==
    /\ Assurance(text) = 4 <=> s >= 850
    /\ Assurance(text) = 3 <=> (s >= 700 /\ s < 850)
    /\ Assurance(text) = 2 <=> (s >= 500 /\ s < 700)
    /\ Assurance(text) = 1 <=> (s >= 400 /\ s < 500)
    /\ Assurance(text) = 0 <=> s < 400

ProviderChecked ==
    /\ Done
    /\ act = "check_provider"
    /\ outcome = "returned"
    /\ "recommendation" \in DOMAIN result

C9_Recommendation ==
    /\ ProviderChecked => RightText(result.score, result.recommendation)
    /\ \A i \in DOMAIN loc.comparison :
          /\ RightText(loc.comparison[i].score, loc.comparison[i].recommendation)
          /\ \A j \in DOMAIN loc.comparison :
                loc.comparison[i].score <= loc.comparison[j].score =>
                    Assurance(loc.comparison[i].recommendation)
                        <= Assurance(loc.comparison[j].recommendation)

C9_Witness ==
    /\ ProviderChecked
    /\ result.score = 850
    /\ Assurance(result.recommendation) = 4

(***************************************************************************)
(* C10, as stated.  In secure_payment, once the balance check has passed   *)
(* and the allowance is known: an approve transaction is submitted if and  *)
(* only if the allowance is below the required amount.                     *)
(***************************************************************************)
Submissions(tx) ==
    {i \in DOMAIN calls : calls[i].op = "send_raw_transaction" /\ calls[i].tx = tx}

Receipts(tx) ==
    {i \in DOMAIN calls :
        calls[i].op = "wait_for_transaction_receipt" /\ calls[i].tx = tx /\ calls[i].ok}

AllowanceRead ==
    /\ act = "secure_payment"
    /\ Len(calls) >= 2
    /\ calls[1].op = "balanceOf" /\ calls[1].ok
    /\ calls[2].op = "allowance" /\ calls[2].ok

\* the smallest-unit amount of the request
RequestedUnits == params.amount_usdc.micro

C10_ApproveIffAllowanceBelow ==
    AllowanceRead /\ Done =>
        (Submissions("approve") # {} <=> loc.allowance < RequestedUnits)

(***************************************************************************)
(* C10, amended.  In secure_payment, once the balance check has passed     *)
(* and the allowance is known: an approve transaction is submitted only    *)
(* if the allowance is below the required amount, and then it is           *)
(* submitted unless a remote call that precedes its broadcast (chain id,   *)
(* nonce, gas estimate, gas price) fails, which ends the invocation; it    *)
(* is submitted at most once and for exactly the required amount;          *)
(* createPayment is submitted only after the receipt of approve has been   *)
(* obtained; if the submission of approve fails, createPayment is never    *)
(* submitted; if the allowance is sufficient, createPayment is the only    *)
(* submission.                                                             *)
(***************************************************************************)
BeforeBroadcast == {"chain_id", "get_transaction_count", "estimate_gas", "gas_price"}

C10_ApproveThenCreate ==
    AllowanceRead =>
        /\ Submissions("approve") # {} => loc.allowance < RequestedUnits
        /\ Done /\ loc.allowance < RequestedUnits /\ Submissions("approve") = {} =>
              LET last == calls[Len(calls)] IN
              ~last.ok /\ last.tx = "approve" /\ last.op \in BeforeBroadcast
        /\ Cardinality(Submissions("approve")) <= 1
        /\ \A i \in Submissions("approve") : calls[i].arg = RequestedUnits
        /\ loc.allowance < RequestedUnits =>
              \A j \in Submissions("createPayment") :
                  \E i \in Receipts("approve") : i < j
        /\ (\E i \in DOMAIN calls :
               /\ calls[i].tx = "approve"
               /\ calls[i].op \in {"send_raw_transaction", "wait_for_transaction_receipt"}
               /\ ~calls[i].ok)
              => Submissions("createPayment") = {}
        /\ loc.allowance >= RequestedUnits =>
              \A i \in DOMAIN calls :
                  calls[i].op = "send_raw_transaction" => calls[i].tx = "createPayment"

C10_Witness ==
    /\ AllowanceRead
    /\ loc.allowance < RequestedUnits
    /\ Receipts("approve") # {}
    /\ Submissions("createPayment") # {}

(***************************************************************************)
(* C11.  Once the receipt of createPayment (raiseDispute) is obtained,     *)
(* secure_payment (raise_dispute) returns a success map and never an       *)
(* error, whatever the logs of the receipt hold: when no log yields an     *)
(* identifier, payment_id (dispute_id) is the transaction hash; and in     *)
(* secure_payment, when no PaymentCreated log carries the escrow flag      *)
(* (the timeout), escrow_used is true (timeout_minutes is 15).             *)
(***************************************************************************)
\* the logs of the receipt that carry the event signature sig
EventLogs(sig) ==
    {i \in DOMAIN loc.receipt.logs :
        /\ loc.receipt.logs[i].topics # <<>>
        /\ loc.receipt.logs[i].topics[1] = sig}

PaymentEventLogs ==
    EventLogs("PaymentCreated(bytes32,address,address,uint256,bool,uint256)")

DisputeEventLogs == EventLogs("DisputeRaised(bytes32,bytes32)")

\* a DisputeRaised log yields an identifier: a third topic, or data
YieldsDisputeId(i) ==
    LET l == loc.receipt.logs[i] IN
    Len(l.topics) >= 3 \/ (Len(l.topics) = 2 /\ l.datahex # "")

PaymentReceiptObtained == act = "secure_payment" /\ Receipts("createPayment") # {}

DisputeReceiptObtained == act = "raise_dispute" /\ Receipts("raiseDispute") # {}

C11_ReceiptMeansSuccess ==
    /\ PaymentReceiptObtained =>
          /\ Done
          /\ outcome = "returned"
          /\ "error" \notin DOMAIN result
          /\ "payment_id" \in DOMAIN result
          /\ (\A i \in PaymentEventLogs : Len(loc.receipt.logs[i].topics) < 2) =>
                result.payment_id = loc.receipt.transactionHash
          /\ (\A i \in PaymentEventLogs : loc.receipt.logs[i].datalen < 64) =>
                result.escrow_used = TRUE
          /\ (\A i \in PaymentEventLogs : loc.receipt.logs[i].datalen < 96) =>
                result.timeout_minutes = 15
    /\ DisputeReceiptObtained =>
          /\ Done
          /\ outcome = "returned"
          /\ "error" \notin DOMAIN result
          /\ "dispute_id" \in DOMAIN result
          /\ (\A i \in DisputeEventLogs : ~YieldsDisputeId(i)) =>
                result.dispute_id = loc.receipt.transactionHash

(***************************************************************************)
(* C12. In every invocation the remote calls are made one after another,   *)
(* contract reads first and signed submissions after them; at most two     *)
(* signed transactions are submitted, an optional approve followed by the  *)
(* one primary call of the action, each submitted at most once;            *)
(* check_provider and compare_providers submit none; and the first remote  *)
(* call that fails is the last call of the invocation, which ends with an  *)
(* error result.                                                           *)
(***************************************************************************)
ContractReads ==
    {"balanceOf", "allowance", "getPayment", "getProviderInfo", "getTrustTier",
     "needsEscrow", "compareProviders"}

Preparation == <<"chain_id", "get_transaction_count", "estimate_gas", "gas_price">>

AllSubmissions == CallsOf("send_raw_transaction")

\* the contract function an action submits as its state-changing call
PrimaryOf(action) ==
    CASE action = "secure_payment" -> "createPayment"
      [] action = "confirm_delivery" -> "confirmDelivery"
      [] action = "raise_dispute" -> "raiseDispute"
      [] OTHER -> None

\* a contract read made after a transaction has been submitted
ReadsAfterSubmission ==
    {j \in DOMAIN calls :
        /\ calls[j].op \in ContractReads
        /\ \E i \in AllSubmissions : i < j}

\* an optional approve followed by the primary call, each at most once
AtMostApproveThenPrimary ==
    /\ Cardinality(AllSubmissions) <= 2
    /\ \A tx \in {"approve", "createPayment", "confirmDelivery", "raiseDispute"} :
          Cardinality(Submissions(tx)) <= 1
    /\ \A i \in AllSubmissions : calls[i].tx \in {"approve", PrimaryOf(act)}
    /\ Submissions("approve") # {} => act = "secure_payment"
    /\ \A i \in Submissions("approve"), j \in AllSubmissions \ Submissions("approve") :
          i < j

ReadOnlyActionsSubmitNothing ==
    act \in {"check_provider", "compare_providers"} =>
        \A i \in DOMAIN calls : calls[i].op \in ContractReads

FirstFailureEndsInvocation ==
    \A i \in DOMAIN calls :
        ~calls[i].ok => i = Len(calls) /\ Done /\ ReturnedError

\* the claim as stated: no contract read follows a submission
C12_ReadsThenSubmissions ==
    /\ ReadsAfterSubmission = {}
    /\ AtMostApproveThenPrimary
    /\ ReadOnlyActionsSubmitNothing
    /\ FirstFailureEndsInvocation

\* the calls that prepare a submission come right before its broadcast
PreparedSubmissions ==
    \A i \in AllSubmissions :
        /\ i > Len(Preparation)
        /\ \A k \in DOMAIN Preparation :
              /\ calls[i - Len(Preparation) + k - 1].op = Preparation[k]
              /\ calls[i - Len(Preparation) + k - 1].tx = calls[i].tx

\* C12, amended: the one contract read after a submission is the
\* getProviderInfo of confirm_delivery, made once, right after the
\* confirmDelivery receipt has been obtained
C12_CallOrder ==
    /\ \A j \in ReadsAfterSubmission :
          /\ act = "confirm_delivery"
          /\ calls[j].op = "getProviderInfo"
          /\ j = Len(calls)
          /\ j - 1 \in Receipts("confirmDelivery")
    /\ Cardinality(ReadsAfterSubmission) <= 1
    /\ PreparedSubmissions
    /\ AtMostApproveThenPrimary
    /\ ReadOnlyActionsSubmitNothing
    /\ FirstFailureEndsInvocation

\* secure_payment has submitted approve and createPayment, and the wait for
\* the createPayment receipt failed
C12_Witness ==
    /\ act = "secure_payment"
    /\ Submissions("approve") # {}
    /\ Submissions("createPayment") # {}
    /\ ~calls[Len(calls)].ok
    /\ Done
    /\ ReturnedError

(***************************************************************************)
(* C13. An error result of a state-changing action means that its primary  *)
(* transaction took no effect: when secure_payment, confirm_delivery or    *)
(* raise_dispute returns an error, no receipt of the createPayment,        *)
(* confirmDelivery or raiseDispute transaction of that invocation has been *)
(* obtained.                                                               *)
(***************************************************************************)
C13_ErrorMeansNoEffect ==
    (Done /\ ReturnedError /\ PrimaryOf(act) # None) =>
        Receipts(PrimaryOf(act)) = {}

====
